---- MODULE Spec2Model ----
(***************************************************************************)
(* A model of the safe wrapper over the CGNS mid-level library             *)
(* (src/src/lib.rs): the process-wide CGNS_MUTEX, the owning File handle   *)
(* with its Drop, the GotoContext that keeps the MutexGuard, the string    *)
(* and array marshalling, and the public operations, each split into the   *)
(* steps other threads can observe: the call, the lock acquisition, the    *)
(* marshalling that precedes the native call, and the native call's        *)
(* return.                                                                 *)
(***************************************************************************)
EXTENDS Integers, Sequences, FiniteSets, TLC

VARIABLES
    inputs,         \* the bounded domains the callers draw their arguments from
    pc,             \* per thread: where it stands in its current operation
    cur,            \* per thread: the frame of the operation in progress
    res,            \* per thread: what its last operation returned or raised
    mutex,          \* CGNS_MUTEX: its holder and its poison flag
    ctx,            \* per thread: the File id its live GotoContext borrows
    file,           \* per thread: the File it owns and the native file behind it
    unwinding,      \* per thread: a panic is unwinding the thread's stack
    aborted,        \* the process aborted (a panic while unwinding)
    nextFd,         \* native: the next file number cg_open hands out
    errText,        \* native: the global error text cg_get_error returns
    overflowChecks  \* build profile: arithmetic overflow panics (debug) or wraps

vars == <<inputs, pc, cur, res, mutex, ctx, file, unwinding, aborted, nextFd,
          errText, overflowChecks>>

----------------------------------------------------------------------------
(* Bounds of the model *)

\* how many files the native library hands out over a run
MaxOpens == 2
\* how many explicit close() calls a File receives before it is dropped
MaxClose == 1
\* how many zones a file receives
MaxZones == 1
\* the largest native status code the library returns to a single caller
MaxStatus == 2

Threads == {"t1", "t2"}
None == "none"

\* host strings as byte sequences; the last one holds an embedded NUL
Names == {<<90>>, <<90, 49>>, <<90, 0, 49>>}
\* dimension lists handed to array_write
DimLists == {<<>>, <<4>>, <<2, 3>>, <<0>>, <<65536, 65536>>, <<65536, 65536, 0>>}
\* lengths of the data slice handed to array_write
Lens == {0, 1, 4, 6}
\* (vertex, cell, boundary) triples handed to zone_write
SizeTriples == {<<10, 4, 0>>, <<3, 1, 1>>}

\* two threads, each argument drawn from a good and a bad value; no dimension
\* list overflows here, so one build profile stands for both
Concurrent ==
    [threads |-> Threads,
     names |-> {<<90>>, <<90, 0, 49>>},
     dims |-> {<<4>>},
     lens |-> {0, 4},
     sizes |-> {<<10, 4, 0>>},
     status |-> 0..1,
     checked |-> {FALSE}]

\* one thread, arguments drawn from the full sets
Sequential ==
    [threads |-> {"t1"},
     names |-> Names,
     dims |-> DimLists,
     lens |-> Lens,
     sizes |-> SizeTriples,
     status |-> 0..MaxStatus,
     checked |-> BOOLEAN]

----------------------------------------------------------------------------
(* 32-bit arithmetic of array_write's dimension check *)

I32Max == 2147483647
I32Min == (-I32Max) - 1

\* the 32-bit product of two 16-bit limbs, as <<high limb, low limb>>
Mul16(a, b) ==
    LET a1 == a \div 256
        a0 == a % 256
        b1 == b \div 256
        b0 == b % 256
        mid == a0 * b1 + a1 * b0
        low == (mid % 256) * 256 + a0 * b0
    IN  <<a1 * b1 + (mid \div 256) + (low \div 65536), low % 65536>>

\* i32 multiplication in two's complement, wrapping modulo 2^32
WrappingMul(a, b) ==
    LET ah == (a \div 65536) % 65536
        al == a % 65536
        bh == (b \div 65536) % 65536
        bl == b % 65536
        ll == Mul16(al, bl)
        hi == (ll[1] + Mul16(al, bh)[2] + Mul16(ah, bl)[2]) % 65536
    IN  IF hi >= 32768 THEN (hi - 65536) * 65536 + ll[2] ELSE hi * 65536 + ll[2]

\* the exact product a * b does not fit an i32
MulOverflows(a, b) ==
    /\ a # 0
    /\ b # 0
    /\ \/ (a = -1 /\ b = I32Min)
       \/ (b = -1 /\ a = I32Min)
       \/ (~(a = -1 /\ b = I32Min) /\ ~(b = -1 /\ a = I32Min)
           /\ (WrappingMul(a, b) \div b) # a)

\* the fold of reduce(|a, v| a * v) from an accumulator: "overflow" when a
\* checked multiplication overflows, else "some" with the i32 product
RECURSIVE ReduceMul(_, _, _)
ReduceMul(acc, rest, checked) ==
    IF rest = <<>> THEN [tag |-> "some", v |-> acc]
    ELSE IF checked /\ MulOverflows(acc, Head(rest)) THEN [tag |-> "overflow", v |-> 0]
    ELSE ReduceMul(WrappingMul(acc, Head(rest)), Tail(rest), checked)

\* dimensions.iter().copied().reduce(|a, v| a * v): "none" for an empty list
DimProduct(dims, checked) ==
    IF dims = <<>> THEN [tag |-> "none", v |-> 0]
    ELSE ReduceMul(Head(dims), Tail(dims), checked)

\* data.len() as i32, for the slice lengths of the model (all below 2^31)
LenAsI32(n) == IF n > I32Max THEN n - I32Max - I32Max - 2 ELSE n

----------------------------------------------------------------------------
(* String marshalling *)

HasNul(s) == \E i \in DOMAIN s : s[i] = 0

\* a conversion that lets an embedded NUL through
CStringLossy(s) == [ok |-> TRUE, bytes |-> Append(s, 0)]

\* CString::new(s): an error when s holds a NUL byte, else s with a NUL appended
CStringNew(s) == IF HasNul(s) THEN [ok |-> FALSE, bytes |-> <<>>] ELSE [ok |-> TRUE, bytes |-> Append(s, 0)]

\* [0_u8; n]
ZeroBuf(n) == [i \in 1..n |-> 0]

\* the native library copies a NUL-terminated name into the caller's buffer
StrCpy(buf, cstr) == [i \in DOMAIN buf |-> IF i <= Len(cstr) THEN cstr[i] ELSE buf[i]]

\* a scan that finds the last NUL instead of the first
LastNulPos(buf) ==
    IF HasNul(buf) THEN CHOOSE i \in DOMAIN buf : buf[i] = 0 /\ \A j \in (i + 1)..Len(buf) : buf[j] # 0
    ELSE 0

\* buf.iter().position(|&r| r == 0): the first NUL (1-based), 0 without one
NulPos(buf) ==
    IF HasNul(buf) THEN CHOOSE i \in DOMAIN buf : buf[i] = 0 /\ \A j \in 1..(i - 1) : buf[j] # 0
    ELSE 0

\* a continuation byte of a UTF-8 sequence, within lo..hi
Cont(s, i, lo, hi) == i <= Len(s) /\ s[i] >= lo /\ s[i] <= hi

\* how many bytes the well-formed UTF-8 sequence at the head of s takes, 0 if
\* s does not start with one (the table of core::str::from_utf8)
Utf8Width(s) ==
    LET b == s[1]
    IN  IF b < 128 THEN 1
        ELSE IF b >= 194 /\ b <= 223
        THEN IF Cont(s, 2, 128, 191) THEN 2 ELSE 0
        ELSE IF b >= 224 /\ b <= 239
        THEN IF /\ Cont(s, 2, IF b = 224 THEN 160 ELSE 128, IF b = 237 THEN 159 ELSE 191)
                /\ Cont(s, 3, 128, 191)
             THEN 3 ELSE 0
        ELSE IF b >= 240 /\ b <= 244
        THEN IF /\ Cont(s, 2, IF b = 240 THEN 144 ELSE 128, IF b = 244 THEN 143 ELSE 191)
                /\ Cont(s, 3, 128, 191)
                /\ Cont(s, 4, 128, 191)
             THEN 4 ELSE 0
        ELSE 0

\* CStr::to_str succeeds: the bytes are a sequence of well-formed UTF-8
\* sequences
RECURSIVE ValidUtf8(_)
ValidUtf8(s) ==
    IF s = <<>> THEN TRUE
    ELSE IF Utf8Width(s) = 0 THEN FALSE
    ELSE ValidUtf8(SubSeq(s, Utf8Width(s) + 1, Len(s)))

\* raw_to_string: not ok when an unwrap fails, else the bytes before the first NUL
raw_to_string(buf) ==
    IF NulPos(buf) = 0 THEN [ok |-> FALSE, s |-> <<>>]
    ELSE LET s == SubSeq(buf, 1, NulPos(buf) - 1)
         IN  IF ValidUtf8(s) THEN [ok |-> TRUE, s |-> s] ELSE [ok |-> FALSE, s |-> <<>>]

\* Vec::with_capacity(n): length 0, n uninitialised slots behind the pointer
VecWithCapacity(n) == [len |-> 0, mem |-> [i \in 1..n |-> None]]
\* the native library writes through the raw pointer; the length is untouched
WriteRaw(v, vals) == [v EXCEPT !.mem = [i \in DOMAIN v.mem |-> IF i <= Len(vals) THEN vals[i] ELSE v.mem[i]]]
\* the elements a Vec holds: the first len slots
VecItems(v) == SubSeq(v.mem, 1, v.len)

----------------------------------------------------------------------------
(* State *)

\* a base_write that forgets the lock
LockingOpsButBaseWrite ==
    {"open", "close", "drop", "biter_write", "biter_read", "golist",
     "ziter_write", "zone_write", "coord_write", "section_write", "section_read"}

\* operations whose first statement is CGNS_MUTEX.lock().unwrap()
LockingOps == {"open", "close", "drop", "biter_write", "biter_read", "golist",
               "ziter_write", "base_write", "zone_write", "coord_write",
               "section_write", "section_read"}
\* operations that build a CString from a host string before the native call
NamedOps == {"open", "biter_write", "golist", "ziter_write", "base_write",
             "zone_write", "coord_write", "coord_read", "section_write",
             "array_write"}

\* impl CgnsDataType for ...: the host element types array_write accepts,
\* each with its native type tag
CgnsDataType == [ty \in {"i32"} |-> "Integer"]

\* the frame of a call: the operation, its arguments (dtype is T::SYS), and
\* the native calls made
Blank == [op |-> "none", name |-> <<>>, fid |-> 0, zone |-> 0, dims |-> <<>>,
          len |-> 0, sizes |-> <<>>, dtype |-> "", ncalls |-> 0]

Call(op, fid) == [Blank EXCEPT !.op = op, !.fid = fid]
Named(op, fid, n, z) == [Call(op, fid) EXCEPT !.name = n, !.zone = z]

\* what a call left its caller with: Ok(val), Err(Error(status)) or a panic;
\* msg tells what Debug for Error printed for an Err
NoResult == [outcome |-> "none", status |-> 0, why |-> "", val |-> <<>>,
             ncalls |-> 0, msg |-> "unread", msgLocked |-> FALSE]

\* File(id) in its owner's hands, with what the native library holds for that
\* id (only this File names it): whether it is open, its zones, and how many
\* times cg_close was invoked on it.  id 0: the thread owns no File.
NoFile == [id |-> 0, open |-> FALSE, closes |-> 0, zones |-> <<>>]

InitWith(in) ==
    /\ inputs = in
    /\ pc = [t \in Threads |-> "idle"]
    /\ cur = [t \in Threads |-> Blank]
    /\ res = [t \in Threads |-> NoResult]
    /\ mutex = [holder |-> None, poisoned |-> FALSE]
    /\ ctx = [t \in Threads |-> 0]
    /\ file = [t \in Threads |-> NoFile]
    /\ unwinding = [t \in Threads |-> FALSE]
    /\ aborted = FALSE
    /\ nextFd = 1
    /\ errText = [by |-> None, st |-> 0]
    /\ overflowChecks \in in.checked

Init == InitWith(Concurrent)
InitSeq == InitWith(Sequential)

----------------------------------------------------------------------------
(* The mutex and panics *)

\* a guard that is never released
StillLocked(t) == mutex

\* a MutexGuard held by t is dropped on a normal return
Unlocked(t) == IF mutex.holder = t THEN [mutex EXCEPT !.holder = None] ELSE mutex

\* a MutexGuard held by t is dropped while t is panicking: std poisons the mutex
PoisonedBy(t, m) ==
    IF m.holder = t THEN [holder |-> None, poisoned |-> TRUE] ELSE m

\* a golist that lets its guard go at the return, context or not
GolistDropsGuard(st) == FALSE

\* golist moves its guard into the GotoContext exactly when the status is 0
GolistKeepsGuard(st) == st = 0

\* A panic in frame c of thread t.  The stack unwinds: the live GotoContext
\* is dropped, then the File, whose Drop calls close().  A panic raised by
\* Drop for File while the thread is already unwinding aborts the process; a
\* panic raised by Drop for File on a normal scope exit leaves the File
\* dropped and the thread dead.
PanicIn(t, c, why, st) ==
    /\ res' = [res EXCEPT ![t] = [NoResult EXCEPT !.outcome = "panic", !.why = why,
                                                  !.status = st, !.ncalls = c.ncalls]]
    /\ ctx' = [ctx EXCEPT ![t] = 0]
    /\ IF c.op = "drop"
       THEN /\ file' = [file EXCEPT ![t] = NoFile]
            /\ aborted' = unwinding[t]
            /\ pc' = [pc EXCEPT ![t] = "dead"]
            /\ cur' = [cur EXCEPT ![t] = Blank]
            /\ UNCHANGED unwinding
       ELSE IF file[t].id # 0
       THEN /\ cur' = [cur EXCEPT ![t] = Call("drop", file[t].id)]
            /\ unwinding' = [unwinding EXCEPT ![t] = TRUE]
            /\ pc' = [pc EXCEPT ![t] = "lock"]
            /\ UNCHANGED <<file, aborted>>
       ELSE /\ pc' = [pc EXCEPT ![t] = "dead"]
            /\ cur' = [cur EXCEPT ![t] = Blank]
            /\ UNCHANGED <<file, aborted, unwinding>>

\* why the statements before the native call panic in frame c: "" if not
PrePanic(c) ==
    IF c.op \in NamedOps /\ ~CStringNew(c.name).ok THEN "nul"
    ELSE IF c.op # "array_write" THEN ""
    ELSE LET p == DimProduct(c.dims, overflowChecks)
         IN  IF p.tag = "none" THEN "empty"
             ELSE IF p.tag = "overflow" THEN "overflow"
             ELSE IF p.v # LenAsI32(c.len) THEN "dim"
             ELSE ""

\* the marshalling and checks of frame c, then the entry into the native
\* primitive; m is the mutex as the frame holds it
Begin(t, c, m) ==
    IF PrePanic(c) # ""
    THEN /\ PanicIn(t, c, PrePanic(c), 0)
         /\ mutex' = PoisonedBy(t, m)
    ELSE /\ pc' = [pc EXCEPT ![t] = "native"]
         /\ cur' = [cur EXCEPT ![t] = [c EXCEPT !.ncalls = @ + 1]]
         /\ file' = IF c.op \in {"close", "drop"}
                    THEN [file EXCEPT ![t].closes = @ + 1]
                    ELSE file
         /\ mutex' = m
         /\ UNCHANGED <<res, ctx, unwinding, aborted>>

\* CGNS_MUTEX.lock().unwrap() and the statements up to the native call: the
\* thread blocks while the mutex is held; on a poisoned mutex lock() returns
\* Err and unwrap panics
lock(t) ==
    /\ ~aborted
    /\ pc[t] = "lock"
    /\ mutex.holder = None
    /\ IF mutex.poisoned
       THEN /\ PanicIn(t, cur[t], "poison", 0)
            /\ UNCHANGED mutex
       ELSE Begin(t, cur[t], [mutex EXCEPT !.holder = t])
    /\ UNCHANGED <<inputs, overflowChecks, nextFd, errText>>

\* lock() on the thread that already holds the mutex: std leaves it
\* unspecified between blocking forever (no step) and this panic
lock_reentrant(t) ==
    /\ ~aborted
    /\ pc[t] = "lock"
    /\ mutex.holder = t
    /\ PanicIn(t, cur[t], "relock", 0)
    /\ mutex' = PoisonedBy(t, mutex)
    /\ UNCHANGED <<inputs, overflowChecks, nextFd, errText>>

\* an operation that takes no lock runs its statements up to the native call
enter(t) ==
    /\ ~aborted
    /\ pc[t] = "body"
    /\ Begin(t, cur[t], mutex)
    /\ UNCHANGED <<inputs, overflowChecks, nextFd, errText>>

----------------------------------------------------------------------------
(* The shape shared by the public operations *)

\* &mut self: the thread owns a File that no GotoContext borrows
CanMut(t) == file[t].id # 0 /\ ctx[t] = 0
\* &self: the thread owns a File
CanRef(t) == file[t].id # 0

\* the operation is entered, the previous result being dropped by now:
\* locking operations go for the mutex first
Start(t, c) ==
    /\ ~aborted
    /\ t \in inputs.threads
    /\ pc[t] = "idle"
    /\ cur' = [cur EXCEPT ![t] = c]
    /\ res' = [res EXCEPT ![t] = NoResult]
    /\ pc' = [pc EXCEPT ![t] = IF c.op \in LockingOps THEN "lock" ELSE "body"]
    /\ UNCHANGED <<inputs, mutex, ctx, file, unwinding, aborted, nextFd, errText,
                   overflowChecks>>

\* thread t is inside the native primitive of operation op
InNative(t, op) == ~aborted /\ pc[t] = "native" /\ cur[t].op = op

\* the statuses the native library can return: never 0 for an invalid request
NativeStatus(valid) == IF valid THEN inputs.status ELSE inputs.status \ {0}

\* the file of thread t's request is open, and its zone (if it names one) exists
ValidIds(t) ==
    /\ file[t].id = cur[t].fid
    /\ file[t].open
    /\ cur[t].zone = 0 \/ cur[t].zone \in 1..Len(file[t].zones)

\* the native library records its error text when a call fails
ErrTextAfter(t, st) == IF st # 0 THEN [by |-> t, st |-> st] ELSE errText

\* a status test that takes status 1 for a warning
OutcomeLenient(st) == IF st <= 1 THEN "ok" ELSE "err"

\* if e == 0 { Ok(..) } else { Err(..) }
Outcome(st) == IF st = 0 THEN "ok" ELSE "err"

\* if e == 0 { Ok(val) } else { Err(e.into()) }
Finish(t, st, val) ==
    /\ res' = [res EXCEPT ![t] = [NoResult EXCEPT !.status = st,
                                    !.outcome = Outcome(st),
                                    !.val = IF Outcome(st) = "ok" THEN val ELSE <<>>,
                                    !.ncalls = cur[t].ncalls]]
    /\ cur' = [cur EXCEPT ![t] = Blank]
    /\ pc' = [pc EXCEPT ![t] = "idle"]
    /\ errText' = ErrTextAfter(t, st)

\* the guard _l of a locking operation goes out of scope at the return
DropGuard(t) == mutex' = Unlocked(t)

\* a read operation decodes the name buffer on its Ok path: raw_to_string
\* panics there when the buffer holds no NUL or no valid UTF-8
FinishDecoded(t, st, buf, rest, locked) ==
    IF st = 0 /\ ~raw_to_string(buf).ok
    THEN /\ PanicIn(t, cur[t], "decode", st)
         /\ mutex' = PoisonedBy(t, mutex)
         /\ errText' = errText
    ELSE /\ Finish(t, st, <<raw_to_string(buf).s>> \o rest)
         /\ mutex' = IF locked THEN Unlocked(t) ELSE mutex
         /\ UNCHANGED <<ctx, file, unwinding, aborted>>

\* the names the native library holds: written through a CString, so NUL-free
StoredNames == {n \in inputs.names : ~HasNul(n)}

----------------------------------------------------------------------------
(* open and the File lifecycle *)

open_call(t) ==
    /\ file[t].id = 0
    /\ nextFd <= MaxOpens
    /\ \E n \in inputs.names : Start(t, Named("open", 0, n, 0))

\* the native open hands out the next file number, while it has one left
open_ret(t) ==
    /\ InNative(t, "open")
    /\ \E st \in NativeStatus(nextFd <= MaxOpens) :
        /\ Finish(t, st, <<nextFd>>)
        /\ DropGuard(t)
        /\ file' = [file EXCEPT ![t] = IF st = 0
                                       THEN [NoFile EXCEPT !.id = nextFd, !.open = TRUE]
                                       ELSE NoFile]
        /\ nextFd' = IF st = 0 THEN nextFd + 1 ELSE nextFd
    /\ UNCHANGED <<inputs, ctx, unwinding, aborted, overflowChecks>>

open(t) == open_call(t) \/ open_ret(t)

\* close(&mut self): the File stays in the caller's hands afterwards
close_call(t) ==
    /\ CanMut(t)
    /\ file[t].closes < MaxClose
    /\ Start(t, Call("close", file[t].id))

\* the native close: an id that is not open is refused; a successful close
\* frees what the library held for the file
NativeClosed(f, st) == IF st = 0 THEN [f EXCEPT !.open = FALSE, !.zones = <<>>] ELSE f

close_ret(t) ==
    /\ InNative(t, "close")
    /\ \E st \in NativeStatus(ValidIds(t)) :
        /\ Finish(t, st, <<>>)
        /\ DropGuard(t)
        /\ file' = [file EXCEPT ![t] = NativeClosed(@, st)]
    /\ UNCHANGED <<inputs, ctx, unwinding, aborted, overflowChecks, nextFd>>

close(t) == close_call(t) \/ close_ret(t)

\* a drop that lets the result of close() go
DropSwallows(st) == FALSE

\* self.close().unwrap() panics exactly when close() returned Err
DropUnwraps(st) == st # 0

\* the File goes out of scope: Drop for File runs self.close().unwrap()
drop_call(t) ==
    /\ CanMut(t)
    /\ Start(t, Call("drop", file[t].id))

drop_ret(t) ==
    /\ InNative(t, "drop")
    /\ \E st \in NativeStatus(ValidIds(t)) :
        /\ errText' = ErrTextAfter(t, st)
        /\ DropGuard(t)
        /\ IF ~DropUnwraps(st)
           THEN /\ res' = [res EXCEPT ![t] = [NoResult EXCEPT !.outcome = "ok",
                                                !.ncalls = cur[t].ncalls]]
                /\ cur' = [cur EXCEPT ![t] = Blank]
                /\ file' = [file EXCEPT ![t] = NoFile]
                /\ pc' = [pc EXCEPT ![t] = IF unwinding[t] THEN "dead" ELSE "idle"]
                /\ UNCHANGED <<ctx, unwinding, aborted>>
           ELSE PanicIn(t, cur[t], "unwrap", st)
    /\ UNCHANGED <<inputs, overflowChecks, nextFd>>

drop(t) == drop_call(t) \/ drop_ret(t)

----------------------------------------------------------------------------
(* Write operations: lock, CString, native call, status *)

\* the Ok/Err return of a locking operation that changes nothing else here
PlainRet(t, op, val) ==
    /\ InNative(t, op)
    /\ \E st \in NativeStatus(ValidIds(t)) :
        /\ Finish(t, st, val)
        /\ DropGuard(t)
    /\ UNCHANGED <<inputs, ctx, file, unwinding, aborted, overflowChecks, nextFd>>

biter_write(t) ==
    \/ /\ CanMut(t)
       /\ \E n \in inputs.names : Start(t, Named("biter_write", file[t].id, n, 0))
    \/ PlainRet(t, "biter_write", <<>>)

ziter_write(t) ==
    \/ /\ CanMut(t)
       /\ \E n \in inputs.names : Start(t, Named("ziter_write", file[t].id, n, 1))
    \/ PlainRet(t, "ziter_write", <<>>)

coord_write(t) ==
    \/ /\ CanMut(t)
       /\ \E n \in inputs.names : Start(t, Named("coord_write", file[t].id, n, 1))
    \/ PlainRet(t, "coord_write", <<>>)

section_write(t) ==
    \/ /\ CanMut(t)
       /\ \E n \in inputs.names : Start(t, Named("section_write", file[t].id, n, 1))
    \/ PlainRet(t, "section_write", <<>>)

\* base_write returns the Base the native library numbered
base_write(t) ==
    \/ /\ CanMut(t)
       /\ \E n \in inputs.names : Start(t, Named("base_write", file[t].id, n, 0))
    \/ PlainRet(t, "base_write", <<1>>)

zone_write_call(t) ==
    /\ CanMut(t)
    /\ Len(file[t].zones) < MaxZones
    /\ \E n \in inputs.names, sz \in inputs.sizes :
        Start(t, [Named("zone_write", file[t].id, n, 0) EXCEPT !.sizes = sz])

\* the native library stores the zone's name and its size triple and
\* numbers the zone
zone_write_ret(t) ==
    /\ InNative(t, "zone_write")
    /\ \E st \in NativeStatus(ValidIds(t)) :
        /\ Finish(t, st, <<Len(file[t].zones) + 1>>)
        /\ DropGuard(t)
        /\ file' = IF st = 0
                   THEN [file EXCEPT ![t].zones =
                           Append(@, [name |-> cur[t].name, sizes |-> cur[t].sizes])]
                   ELSE file
    /\ UNCHANGED <<inputs, ctx, unwinding, aborted, overflowChecks, nextFd>>

zone_write(t) == zone_write_call(t) \/ zone_write_ret(t)

----------------------------------------------------------------------------
(* Read operations *)

\* the return of a read operation that decodes a name buffer of n bytes
DecodedRet(t, op, n, locked) ==
    /\ InNative(t, op)
    /\ \E st \in NativeStatus(ValidIds(t)), nm \in StoredNames :
        FinishDecoded(t, st, StrCpy(ZeroBuf(n), Append(nm, 0)), <<>>, locked)
    /\ UNCHANGED <<inputs, overflowChecks, nextFd>>

\* biter_read: &mut self, under the lock, a 33-byte name buffer
biter_read(t) ==
    \/ /\ CanMut(t)
       /\ Start(t, Call("biter_read", file[t].id))
    \/ DecodedRet(t, "biter_read", 33, TRUE)

\* coord_info: &self, no lock, a 64-byte name buffer
coord_info(t) ==
    \/ /\ CanRef(t)
       /\ Start(t, Named("coord_info", file[t].id, <<>>, 1))
    \/ DecodedRet(t, "coord_info", 64, FALSE)

\* section_read: &self, under the lock, a 64-byte name buffer
section_read(t) ==
    \/ /\ CanRef(t)
       /\ Start(t, Named("section_read", file[t].id, <<>>, 1))
    \/ DecodedRet(t, "section_read", 64, TRUE)

zone_read_call(t) ==
    /\ CanRef(t)
    /\ \E z \in 1..MaxZones : Start(t, Named("zone_read", file[t].id, <<>>, z))

\* zone_read: &self, no lock; the native library writes the name into a
\* 64-byte buffer and the three sizes through v.as_mut_ptr(); v is returned
\* as it is
zone_read_ret(t) ==
    /\ InNative(t, "zone_read")
    /\ \E st \in NativeStatus(ValidIds(t)) :
        LET z == IF ValidIds(t) THEN file[t].zones[cur[t].zone]
                 ELSE [name |-> <<>>, sizes |-> <<>>]
            buf == StrCpy(ZeroBuf(64), Append(z.name, 0))
            v == WriteRaw(VecWithCapacity(3), z.sizes)
        IN  FinishDecoded(t, st, buf, <<VecItems(v)>>, FALSE)
    /\ UNCHANGED <<inputs, overflowChecks, nextFd>>

zone_read(t) == zone_read_call(t) \/ zone_read_ret(t)

\* the Ok/Err return of an operation that took no lock
UnlockedRet(t, op) ==
    /\ InNative(t, op)
    /\ \E st \in NativeStatus(ValidIds(t)) : Finish(t, st, <<>>)
    /\ UNCHANGED <<inputs, mutex, ctx, file, unwinding, aborted, overflowChecks, nextFd>>

\* coord_read: &self, no lock, a CString for the coordinate name
coord_read(t) ==
    \/ /\ CanRef(t)
       /\ \E n \in inputs.names : Start(t, Named("coord_read", file[t].id, n, 1))
    \/ UnlockedRet(t, "coord_read")

\* elements_read: &self, no lock
elements_read(t) ==
    \/ /\ CanRef(t)
       /\ Start(t, Named("elements_read", file[t].id, <<>>, 1))
    \/ UnlockedRet(t, "elements_read")

----------------------------------------------------------------------------
(* The navigation context *)

golist_call(t) ==
    /\ CanRef(t)
    /\ \E n \in inputs.names : Start(t, Named("golist", file[t].id, n, 0))

\* Ok(GotoContext(l)) keeps the guard alive in the context; Err drops it
golist_ret(t) ==
    /\ InNative(t, "golist")
    /\ \E st \in NativeStatus(ValidIds(t)) :
        /\ Finish(t, st, <<>>)
        /\ mutex' = IF GolistKeepsGuard(st) THEN mutex ELSE Unlocked(t)
        /\ ctx' = [ctx EXCEPT ![t] = IF st = 0 THEN cur[t].fid ELSE 0]
    /\ UNCHANGED <<inputs, file, unwinding, aborted, overflowChecks, nextFd>>

golist(t) == golist_call(t) \/ golist_ret(t)

\* the GotoContext goes out of scope: its MutexGuard unlocks the mutex
drop_context(t) ==
    /\ ~aborted
    /\ pc[t] = "idle"
    /\ ctx[t] # 0
    /\ ctx' = [ctx EXCEPT ![t] = 0]
    /\ mutex' = Unlocked(t)
    /\ UNCHANGED <<inputs, pc, cur, res, file, unwinding, aborted, nextFd, errText,
                   overflowChecks>>

array_write_call(t) ==
    /\ ctx[t] # 0
    /\ \E n \in inputs.names, d \in inputs.dims, l \in inputs.lens,
          ty \in DOMAIN CgnsDataType :
        Start(t, [Named("array_write", ctx[t], n, 0)
                    EXCEPT !.dims = d, !.len = l, !.dtype = CgnsDataType[ty]])

\* array_write takes no lock of its own: the context holds it
array_write_ret(t) ==
    /\ InNative(t, "array_write")
    /\ \E st \in NativeStatus(ValidIds(t)) : Finish(t, st, <<>>)
    /\ UNCHANGED <<inputs, mutex, ctx, file, unwinding, aborted, overflowChecks, nextFd>>

array_write(t) == array_write_call(t) \/ array_write_ret(t)

----------------------------------------------------------------------------
(* Errors *)

\* Debug for Error: the text comes from cg_get_error() when the Error is
\* formatted, with no lock taken; it is the text of the library's last failure
fmt(t) ==
    /\ ~aborted
    /\ pc[t] = "idle"
    /\ res[t].outcome = "err"
    /\ res[t].msg = "unread"
    /\ res' = [res EXCEPT ![t].msg = IF errText = [by |-> t, st |-> res[t].status]
                                     THEN "own" ELSE "foreign",
                          ![t].msgLocked = (mutex.holder = t)]
    /\ UNCHANGED <<inputs, pc, cur, mutex, ctx, file, unwinding, aborted, nextFd,
                   errText, overflowChecks>>

----------------------------------------------------------------------------
(* The specifications *)

Next ==
    \/ \E t \in Threads : lock(t)
    \/ \E t \in Threads : lock_reentrant(t)
    \/ \E t \in Threads : enter(t)
    \/ \E t \in Threads : open(t)
    \/ \E t \in Threads : close(t)
    \/ \E t \in Threads : drop(t)
    \/ \E t \in Threads : biter_write(t)
    \/ \E t \in Threads : biter_read(t)
    \/ \E t \in Threads : golist(t)
    \/ \E t \in Threads : drop_context(t)
    \/ \E t \in Threads : array_write(t)
    \/ \E t \in Threads : ziter_write(t)
    \/ \E t \in Threads : base_write(t)
    \/ \E t \in Threads : zone_write(t)
    \/ \E t \in Threads : coord_write(t)
    \/ \E t \in Threads : zone_read(t)
    \/ \E t \in Threads : coord_info(t)
    \/ \E t \in Threads : coord_read(t)
    \/ \E t \in Threads : section_write(t)
    \/ \E t \in Threads : elements_read(t)
    \/ \E t \in Threads : section_read(t)
    \/ \E t \in Threads : fmt(t)

\* two threads over the whole interface
Spec == Init /\ [][Next]_vars

\* one thread over the whole interface, with the full argument sets
SpecSeq == InitSeq /\ [][Next]_vars

----------------------------------------------------------------------------
(* raw_to_string on its own, over every buffer of a bounded size *)

\* the length of the byte buffers handed to raw_to_string
BufLen == 3
\* the bytes of the buffers: NUL, "Z", and the two bytes of U+00E9
Bytes == {0, 90, 195, 169}
Buffers == [1..BufLen -> Bytes]

\* one caller about to decode a buffer
InitDecode ==
    /\ inputs = Sequential
    /\ pc = [t \in Threads |-> IF t \in Sequential.threads THEN "body" ELSE "idle"]
    /\ \E buf \in Buffers :
          cur = [t \in Threads |->
                   IF t \in Sequential.threads
                   THEN [Blank EXCEPT !.op = "raw_to_string", !.name = buf]
                   ELSE Blank]
    /\ res = [t \in Threads |-> NoResult]
    /\ mutex = [holder |-> None, poisoned |-> FALSE]
    /\ ctx = [t \in Threads |-> 0]
    /\ file = [t \in Threads |-> NoFile]
    /\ unwinding = [t \in Threads |-> FALSE]
    /\ aborted = FALSE
    /\ nextFd = 1
    /\ errText = [by |-> None, st |-> 0]
    /\ overflowChecks = FALSE

\* the caller applies raw_to_string to its buffer (kept in the frame's name
\* field): the String comes back, or an unwrap panics
raw_to_string_call(t) ==
    /\ pc[t] = "body"
    /\ cur[t].op = "raw_to_string"
    /\ LET r == raw_to_string(cur[t].name)
       IN  /\ res' = [res EXCEPT ![t] =
                        IF r.ok
                        THEN [NoResult EXCEPT !.outcome = "ok", !.val = <<r.s>>]
                        ELSE [NoResult EXCEPT !.outcome = "panic", !.why = "decode"]]
           /\ pc' = [pc EXCEPT ![t] = IF r.ok THEN "idle" ELSE "dead"]
    /\ UNCHANGED <<inputs, cur, mutex, ctx, file, unwinding, aborted, nextFd, errText,
                   overflowChecks>>

NextDecode == \E t \in Threads : raw_to_string_call(t)

SpecDecode == InitDecode /\ [][NextDecode]_vars

----------------------------------------------------------------------------
(* Properties *)

\* the threads inside a native primitive
InNativeCall == {t \in Threads : pc[t] = "native"}

\* the threads that hold a live GotoContext
LiveContexts == {t \in Threads : ctx[t] # 0}

\* the exact product of a dimension list, over the integers: "overflow"
\* stands for a product beyond the i32 range, which no slice length of the
\* model equals; the empty product is 1
ExactProduct(dims) ==
    IF dims = <<>> THEN [tag |-> "some", v |-> 1]
    ELSE IF \E i \in DOMAIN dims : dims[i] = 0 THEN [tag |-> "some", v |-> 0]
    ELSE ReduceMul(Head(dims), Tail(dims), TRUE)

\* the exact product of the frame's dimensions differs from its data length
Mismatch(c) == ExactProduct(c.dims).tag # "some" \/ ExactProduct(c.dims).v # c.len

\* thread t leaves the statements that precede array_write's native call
LeavesArrayChecks(t) ==
    pc[t] = "body" /\ cur[t].op = "array_write" /\ pc'[t] # "body"

\* thread t returns from the native primitive of operation op
Returns(t, op) == pc[t] = "native" /\ cur[t].op = op /\ pc'[t] # "native"

\* C1: in every reachable state at most one thread is inside a native
\* library call.
C1_MutualExclusion == Cardinality(InNativeCall) <= 1

\* C2: the native close primitive is invoked at most once on the resource
\* id of a File.
C2_CloseAtMostOnce == \A t \in Threads : file[t].closes <= 1

\* C3: whenever a File leaves its owner's hands (its scope exits, normally
\* or by a panic), the native close primitive has been invoked on its id.
C3_CloseOnEveryExit ==
    [][\A t \in Threads :
          (file[t].id # 0 /\ file'[t].id = 0) => file[t].closes >= 1]_vars

\* C4: no native primitive runs with the resource id of a File on which the
\* native close primitive was invoked before.
C4_NoUseAfterClose ==
    \A t \in Threads :
        (pc[t] = "native" /\ cur[t].op \notin {"open", "array_write"}) =>
            IF cur[t].op \in {"close", "drop"}
            THEN file[t].closes <= 1
            ELSE file[t].closes = 0

\* C5: at most one GotoContext is live, and while a thread holds one, a
\* golist call of another thread is still waiting for the mutex: it has
\* neither entered the native navigation call nor returned.
C5_SingleContext ==
    /\ Cardinality(LiveContexts) <= 1
    /\ \A t \in Threads, u \in Threads :
         (t # u /\ ctx[u] # 0 /\ cur[t].op = "golist") => pc[t] = "lock"

\* C5 witness: a thread waits in golist while another holds a live context
C5_Witness ==
    \E t \in Threads, u \in Threads :
        t # u /\ ctx[u] # 0 /\ cur[t].op = "golist" /\ pc[t] = "lock"

\* C6: after a panic under the lock, no later lock-taking operation fails to
\* acquire the mutex: none ends in the panic of lock().unwrap().
C6_LockSurvivesPanic == \A t \in Threads : res[t].why # "poison"

\* C7: the text shown for an Err is read while the lock of the failing call
\* is still held, and it is the text of that failing call.
C7_ErrorTextUnderLock ==
    \A t \in Threads :
        res[t].msg # "unread" => (res[t].msgLocked /\ res[t].msg = "own")

\* C8: an array_write whose dimensions' product differs from the data length
\* panics before the native array-write primitive is invoked.
C8_MismatchFailsFast ==
    [][\A t \in Threads :
          (LeavesArrayChecks(t) /\ Mismatch(cur[t])) =>
              (pc'[t] # "native" /\ res'[t].outcome = "panic")]_vars

\* C9: an array_write whose dimensions' product equals the data length and
\* whose name has no NUL does not panic, invokes the native primitive exactly
\* once, and returns Ok for status 0 and Err with the status otherwise.
C9_MatchReachesNative ==
    [][\A t \in Threads :
          /\ (LeavesArrayChecks(t) /\ ~Mismatch(cur[t]) /\ ~HasNul(cur[t].name)) =>
                (pc'[t] = "native" /\ cur'[t].ncalls = 1)
          /\ Returns(t, "array_write") =>
                /\ res'[t].ncalls = 1
                /\ res'[t].outcome \in {"ok", "err"}
                /\ res'[t].outcome = "ok" <=> res'[t].status = 0]_vars

\* C10: a successful zone_read of a zone written by zone_write returns the
\* name written and a size vector of exactly the three sizes written.
C10_ZoneRoundTrip ==
    [][\A t \in Threads :
          (Returns(t, "zone_read") /\ res'[t].outcome = "ok") =>
              /\ res'[t].val[1] = file[t].zones[cur[t].zone].name
              /\ Len(res'[t].val[2]) = 3
              /\ res'[t].val[2] = file[t].zones[cur[t].zone].sizes]_vars

\* the operations of the write path: open, the writes, close
WritePathOps == {"open", "base_write", "zone_write", "coord_write",
                 "section_write", "biter_write", "ziter_write", "close"}

\* the threads inside a native primitive of the write path
InWritePathCall == {t \in Threads : pc[t] = "native" /\ cur[t].op \in WritePathOps}

\* C11: native calls of open, the write operations and close never overlap:
\* at most one thread is inside one, and that thread holds the mutex, so a
\* thread enters only after the other thread's call has exited.
C11_WritePathSerialized ==
    /\ Cardinality(InWritePathCall) <= 1
    /\ \A t \in InWritePathCall : mutex.holder = t

\* C11 witness: a thread is inside a write on its file while the other
\* thread, writing to a different file, waits for the mutex
C11_Witness ==
    \E t \in Threads, u \in Threads :
        /\ t # u
        /\ pc[t] = "native" /\ cur[t].op = "base_write"
        /\ pc[u] = "lock" /\ cur[u].op = "zone_write"
        /\ file[u].id # 0 /\ file[t].id # file[u].id

\* the bytes of a buffer that precede its first NUL (all of it without one)
BeforeFirstNul(buf) ==
    SubSeq(buf, 1, Cardinality({i \in DOMAIN buf : \A j \in 1..i : buf[j] # 0}))

\* thread t has applied raw_to_string to the buffer of its frame
Decoded(t) == cur[t].op = "raw_to_string" /\ pc[t] # "body"

\* C12 as stated: for every buffer that holds a NUL, raw_to_string returns
\* exactly the bytes before the first NUL; for a buffer without a NUL it panics.
C12_DecodesEveryBuffer ==
    \A t \in Threads :
        Decoded(t) =>
            IF HasNul(cur[t].name)
            THEN res[t].outcome = "ok" /\ res[t].val = <<BeforeFirstNul(cur[t].name)>>
            ELSE res[t].outcome = "panic"

\* C12 amended: for every buffer that holds a NUL and whose bytes before the
\* first NUL are valid UTF-8, raw_to_string returns exactly those bytes; for
\* every other buffer (no NUL, or bytes before the first NUL that are not
\* valid UTF-8) it panics.
C12_DecodesUtf8Buffer ==
    \A t \in Threads :
        Decoded(t) =>
            IF HasNul(cur[t].name) /\ ValidUtf8(BeforeFirstNul(cur[t].name))
            THEN res[t].outcome = "ok" /\ res[t].val = <<BeforeFirstNul(cur[t].name)>>
            ELSE res[t].outcome = "panic"

\* C12 witness: a buffer of two characters and NUL padding decoded to the
\* two characters
C12_Witness ==
    \E t \in Threads :
        /\ Decoded(t)
        /\ SubSeq(cur[t].name, 1, 3) = <<90, 90, 0>>
        /\ res[t].outcome = "ok"
        /\ res[t].val = <<<<90, 90>>>>

C14_DropFailureIsFatal ==
    [][\A t \in Threads :
          (pc[t] = "native" /\ cur[t].op = "drop" /\ pc'[t] # "native"
             /\ (~file[t].open \/ errText' # errText)) =>
              /\ res'[t].outcome = "panic"
              /\ res'[t].status # 0
              /\ pc'[t] = "dead"]_vars

\* C14 witness: a drop panicked on the nonzero status of the native close
C14_Witness ==
    \E t \in Threads :
        /\ res[t].outcome = "panic" /\ res[t].why = "unwrap" /\ res[t].status # 0
        /\ pc[t] = "dead" /\ file[t].id = 0

\* C15: whenever a GotoContext is live, array_write accepts both the 32-bit
\* integer and the 64-bit float as its element type, the integer with the
\* native tag Integer and the float with the native tag RealDouble.
C15_TypedDispatch ==
    \A t \in Threads :
        ctx[t] # 0 =>
            /\ "i32" \in DOMAIN CgnsDataType
            /\ CgnsDataType["i32"] = "Integer"
            /\ "f64" \in DOMAIN CgnsDataType
            /\ CgnsDataType["f64"] = "RealDouble"

\* no thread is inside a public operation
Quiescent == \A t \in Threads : pc[t] \in {"idle", "dead"}

\* C16: a thread that is not inside an operation holds the mutex exactly
\* when it holds a live GotoContext; so whenever no thread is inside an
\* operation, the mutex is held if and only if exactly one GotoContext is
\* live.
C16_LockIffContext ==
    /\ \A t \in Threads :
         pc[t] \in {"idle", "dead"} => (mutex.holder = t <=> ctx[t] # 0)
    /\ Quiescent => (mutex.holder # None <=> Cardinality(LiveContexts) = 1)

\* C16 witness: nobody is inside an operation, one thread holds a context
\* and the mutex, and the other thread's last operation returned Err
C16_Witness ==
    /\ Quiescent
    /\ \E t \in Threads, u \in Threads :
         /\ t # u
         /\ ctx[t] # 0 /\ mutex.holder = t
         /\ res[u].outcome = "err" /\ ctx[u] = 0

\* C17: no call is left waiting for a mutex that can never be handed to it:
\* no thread stands at lock() while it holds the mutex itself (from there
\* the call blocks forever or panics, and never returns), and no call ends
\* in the panic of such a lock().
C17_NoSelfDeadlock ==
    \A t \in Threads :
        /\ ~(pc[t] = "lock" /\ mutex.holder = t)
        /\ res[t].why # "relock"

\* C18: while a GotoContext is live, the File it was obtained from is still
\* in its owner's hands and the native close has not been invoked on it
\* (neither by close() nor by drop); an array_write inside its native call
\* runs against that open file.
C18_ContextWithinFile ==
    /\ \A t \in Threads :
         ctx[t] # 0 =>
             (file[t].id = ctx[t] /\ file[t].closes = 0 /\ file[t].open)
    /\ \A t \in Threads :
         (pc[t] = "native" /\ cur[t].op = "array_write") =>
             (ctx[t] = cur[t].fid /\ file[t].id = cur[t].fid /\ file[t].open)

\* the public operations that take a host string
StringOps == {"open", "base_write", "zone_write", "coord_write", "coord_read",
              "section_write", "biter_write", "ziter_write", "golist",
              "array_write"}

\* C19: a call of an operation that takes a string, given a string with a
\* NUL byte, never enters its native primitive; when it leaves the
\* statements before the native call it does so by a panic, with no native
\* call made and no Ok or Err returned.
C19_NulNamePanics ==
    [][\A t \in Threads :
          /\ (pc'[t] = "native" /\ cur'[t].op \in StringOps) => ~HasNul(cur'[t].name)
          /\ (/\ cur[t].op \in StringOps
              /\ HasNul(cur[t].name)
              /\ pc[t] \in {"lock", "body"}
              /\ cur'[t] # cur[t]) =>
                 /\ pc'[t] # "native"
                 /\ res'[t].outcome = "panic"
                 /\ res'[t].ncalls = 0]_vars

\* C19 witness: a call panicked on the NUL byte of its string before any
\* native call
C19_Witness ==
    \E t \in Threads :
        res[t].outcome = "panic" /\ res[t].why = "nul" /\ res[t].ncalls = 0

\* C20: no thread is inside the native array write with a dimension list
\* whose exact product differs from the exact data length, products beyond
\* the 32-bit range included.
C20_DimCheckSound ==
    \A t \in Threads :
        (pc[t] = "native" /\ cur[t].op = "array_write") => ~Mismatch(cur[t])

====
